---------------------------- MODULE Spec2Model ----------------------------
(***************************************************************************)
(* A model of the corpus-modelling core of elerisarsfield/fyp:             *)
(*   corpus.py  Word.calculate, Document.init_partition, Corpus.__init__,  *)
(*              Corpus.get_documents, Corpus.preprocess,                   *)
(*              Corpus.collocations                                        *)
(*   main.py    main from the initial partitions to the assertions         *)
(*                                                                         *)
(* Real numbers are exact rationals <<numerator, denominator>> with a      *)
(* positive denominator; comparisons are done by cross multiplication.     *)
(* Python exceptions are recorded in the pc variable of the routine that   *)
(* raised them.                                                            *)
(***************************************************************************)
EXTENDS Integers, Sequences, FiniteSets, TLC

VARIABLES
    \* Document.init_partition
    doc,            \* Document.words: the token ids of the document
    alpha,          \* the concentration parameter, a rational <<num, den>>
    N,              \* the running token count of init_partition
    partition,      \* Document.partition: a sequence of clusters
    crp_pc,         \* "idle" | "loop" | "done" | "IndexError"
    \* Word.calculate
    senses,         \* Word.senses: one row <<reference, focus>> per sense
    result,         \* what calculate returned
    word_pc,        \* "idle" | "ready" | "returned" | "ValueError"
    \* Corpus
    reference,      \* the lines of the reference file
    has_focus,      \* whether a focus file is given
    focus,          \* the lines of the focus file
    floor,          \* Corpus.floor: the floor argument plus one
    window_size,    \* the window_size argument
    word_counts,    \* Corpus.word_counts: <<word, count>> in insertion order
    word_to_idx,    \* Corpus.word_to_idx: word -> id
    idx_to_word,    \* Corpus.idx_to_word: the word of id k is at k+1
    docs,           \* Corpus.docs
    sentences,      \* Corpus.sentences: the filtered sentences
    vocab_size,     \* Corpus.vocab_size
    collocations,   \* Corpus.collocations: the co-occurrence counts
    corpus_pc,      \* "idle" | "reference" | "focus" | "finish" | "done"
    \* main
    num_senses,     \* hdp.senses.shape[0]
    words,          \* the dict `words` of main: word -> Word
    pos,            \* how many Documents main has run init_partition on
    main_pc         \* "idle" | "init_partition" | "hdp" |
                    \* "topic_to_distribution" | "sampling" | "scoring" |
                    \* "calculate" | "assert" | "IndexError" |
                    \* "AttributeError" | "ValueError in calculate" |
                    \* "ValueError in max" | "TypeError"

crp_vars    == <<doc, alpha, N, partition, crp_pc>>
word_vars   == <<senses, result, word_pc>>
input_vars  == <<reference, has_focus, focus, floor, window_size>>
corpus_vars == <<input_vars, word_counts, word_to_idx, idx_to_word, docs,
                 sentences, vocab_size, collocations, corpus_pc>>

main_vars   == <<num_senses, words, pos, main_pc>>
corpus_rest == <<input_vars, word_counts, word_to_idx, idx_to_word, sentences,
                 vocab_size, collocations, corpus_pc>>

vars == <<crp_vars, word_vars, corpus_vars, main_vars>>

-----------------------------------------------------------------------------
(* Bounds *)

MaxDocLen == 3      \* longest document given to init_partition
MaxTok    == 2      \* token ids of those documents are 0 .. MaxTok-1
MaxDen    == 3      \* uniform draws are k/d with 0 <= k < d <= MaxDen
MaxSenses == 3      \* most rows of a sense matrix given to calculate
MaxCount  == 2      \* largest cell of such a matrix
MaxLines  == 2      \* most lines of an input file
MaxTokens == 3      \* most token occurrences in the Documents of main
MaxGlobal == 2      \* most global senses of the sampler

-----------------------------------------------------------------------------
(* Helpers *)

RECURSIVE SeqsUpTo(_, _)
\* all sequences over S of length 0 .. n
SeqsUpTo(S, n) ==
    IF n = 0 THEN {<<>>}
    ELSE LET shorter == SeqsUpTo(S, n - 1)
         IN  shorter \cup {Append(s, x) : s \in {t \in shorter : Len(t) = n - 1}, x \in S}

RECURSIVE SumSeq(_)
SumSeq(s) == IF s = <<>> THEN 0 ELSE Head(s) + SumSeq(Tail(s))

CountIn(s, t) == Cardinality({k \in 1 .. Len(s) : s[k] = t})

Min(S) == CHOOSE x \in S : \A y \in S : x <= y
Max(S) == CHOOSE x \in S : \A y \in S : x >= y

\* the sum of the first j elements of s
PrefixSum(s, j) == SumSeq(SubSeq(s, 1, j))

-----------------------------------------------------------------------------
(* Document.init_partition, corpus.py 66-94 *)

Alphas == {<<1, 1>>, <<1, 2>>, <<2, 1>>}

\* random.random(): a float in [0, 1), 0.0 included
Draws == {r \in (0 .. MaxDen - 1) \X (1 .. MaxDen) : r[1] < r[2]}

\* N + alpha - 1 as a fraction over alpha's denominator: its numerator
PriorDen(n, a) == a[2] * (n - 1) + a[1]

\* the list `prior` of one iteration, every entry scaled by PriorDen/1:
\* len(cluster)/(N+alpha-1) for each cluster, then alpha/(N+alpha-1)
Prior(part, a) ==
    [j \in 1 .. Len(part) + 1 |->
        IF j <= Len(part) THEN Len(part[j]) * a[2] ELSE a[1]]

\* table > sum(prior[:-1])
OpensNew(part, n, a, table) ==
    table[1] * PriorDen(n, a) > PrefixSum(Prior(part, a), Len(part)) * table[2]

\* the indices j (1-based) of prior at which the walk finds curr > table
WalkHits(part, n, a, table) ==
    {j \in 1 .. Len(part) + 1 :
        PrefixSum(Prior(part, a), j) * table[2] > table[1] * PriorDen(n, a)}

\* one iteration of the for loop over self.words for the token i, with the
\* draw `table`: the partition it leaves and whether it raised
CrpStep(part, n, a, i, table) ==
    LET hits == WalkHits(part, n, a, table)
    IN  IF OpensNew(part, n, a, table)
        THEN [partition |-> Append(part, <<i>>), raised |-> FALSE]
        ELSE IF hits = {}
        THEN \* the walk ends without a break (only if alpha is not
             \* positive): the token is in no cluster
             [partition |-> part, raised |-> FALSE]
        ELSE IF Min(hits) <= Len(part)
        THEN [partition |-> [part EXCEPT ![Min(hits)] = Append(@, i)], raised |-> FALSE]
        ELSE \* self.partition[j] with j = len(self.partition): IndexError
             [partition |-> part, raised |-> TRUE]

InitPartitionStep(table) ==
    /\ crp_pc = "loop"
    /\ N < Len(doc)
    /\ N' = N + 1
    /\ partition' = CrpStep(partition, N + 1, alpha, doc[N + 1], table).partition
    /\ crp_pc' = IF CrpStep(partition, N + 1, alpha, doc[N + 1], table).raised
                 THEN "IndexError" ELSE "loop"
    /\ UNCHANGED <<doc, alpha, word_vars, corpus_vars, main_vars>>

InitPartitionDraw == \E table \in Draws : InitPartitionStep(table)

\* the for loop is exhausted and init_partition returns
InitPartitionReturn ==
    /\ crp_pc = "loop"
    /\ N = Len(doc)
    /\ crp_pc' = "done"
    /\ UNCHANGED <<doc, alpha, N, partition, word_vars, corpus_vars, main_vars>>

CrpIdle ==
    /\ doc = <<>>
    /\ alpha = <<1, 1>>
    /\ N = 0
    /\ partition = <<>>
    /\ crp_pc = "idle"

CrpInit ==
    /\ doc \in SeqsUpTo(0 .. MaxTok - 1, MaxDocLen)
    /\ alpha \in Alphas
    /\ N = 0
    /\ partition = <<>>
    /\ crp_pc = "loop"

-----------------------------------------------------------------------------
(* Word.calculate, corpus.py 32-44 *)

NoResult == [kind |-> "none"]

\* a == b, a < b for rationals with positive denominators
RatEq(a, b) == a[1] * b[2] = b[1] * a[2]
RatLt(a, b) == a[1] * b[2] < b[1] * a[2]

\* the elements of a finite set of integers in ascending order
RECURSIVE SortedSeq(_)
SortedSeq(S) == IF S = {} THEN <<>> ELSE <<Min(S)>> \o SortedSeq(S \ {Min(S)})

RowIsZero(row) == row[1] = 0 /\ row[2] = 0

\* np.unique(np.nonzero(self.senses)): nonzero gives the pair (row indices,
\* column indices) of the nonzero cells, and unique flattens the pair, so the
\* 0-based row and column indices are merged into one sorted array
Indices(s) ==
    SortedSeq({i - 1 : i \in {k \in 1 .. Len(s) : ~RowIsZero(s[k])}} \cup
              {c - 1 : c \in {k \in 1 .. 2 : \E i \in 1 .. Len(s) : s[i][k] # 0}})

\* self.senses[~np.all(self.senses == 0, axis=1)]
RECURSIVE Stripped(_)
Stripped(s) ==
    IF s = <<>> THEN <<>>
    ELSE (IF RowIsZero(Head(s)) THEN <<>> ELSE <<Head(s)>>) \o Stripped(Tail(s))

\* scores[:, 1] - scores[:, 0] with scores = stripped/stripped.sum(axis=1)
Novelty(s) ==
    [k \in 1 .. Len(Stripped(s)) |->
        <<Stripped(s)[k][2] - Stripped(s)[k][1], Stripped(s)[k][1] + Stripped(s)[k][2]>>]

\* np.argmax(novelty): the first position of the maximum, 1-based here
ArgMax(nov) ==
    Min({k \in 1 .. Len(nov) : \A m \in 1 .. Len(nov) : ~RatLt(nov[k], nov[m])})

\* calculate with a defaulted result for a word that was never observed
calculateDefaulted(s) ==
    IF Len(Novelty(s)) = 0
    THEN [kind |-> "ok", score |-> <<0, 1>>, index |-> 0]
    ELSE [kind  |-> "ok",
          score |-> Novelty(s)[ArgMax(Novelty(s))],
          index |-> Indices(s)[ArgMax(Novelty(s))]]

\* (novelty.max(), indices[np.argmax(novelty)]); max of an empty array
\* raises ValueError
calculate(s) ==
    IF Len(Novelty(s)) = 0
    THEN [kind |-> "ValueError"]
    ELSE [kind  |-> "ok",
          score |-> Novelty(s)[ArgMax(Novelty(s))],
          index |-> Indices(s)[ArgMax(Novelty(s))]]

Calculate ==
    /\ word_pc = "ready"
    /\ result' = calculate(senses)
    /\ word_pc' = IF calculate(senses).kind = "ok" THEN "returned" ELSE "ValueError"
    /\ UNCHANGED <<senses, crp_vars, corpus_vars, main_vars>>

WordIdle ==
    /\ senses = <<>>
    /\ result = NoResult
    /\ word_pc = "idle"

WordInit ==
    /\ senses \in UNION {[1 .. n -> (0 .. MaxCount) \X (0 .. MaxCount)] : n \in 1 .. MaxSenses}
    /\ result = NoResult
    /\ word_pc = "ready"

-----------------------------------------------------------------------------
(* Corpus, corpus.py 97-222 *)

RECURSIVE Flatten(_)
Flatten(ss) == IF ss = <<>> THEN <<>> ELSE Head(ss) \o Flatten(Tail(ss))

\* A line of a file is a sequence of chunks separated by single spaces, and
\* a chunk is the sequence of pieces nltk.word_tokenize cuts it into: a word
\* is one piece, a word with a full stop after it is two.
Plain(w) == <<w>>
Line(ws) == [k \in 1 .. Len(ws) |-> Plain(ws[k])]

SentencePool ==
    { Line(<<"cat", "sat", "mat">>),
      Line(<<"dog", "sat", "log">>),
      Line(<<"cat", "sat", "log">>),
      Line(<<"dog", "sat", "mat">>),
      <<Plain("the"), <<"mat", ".">>>> }

Files == SeqsUpTo(SentencePool, MaxLines) \ {<<>>}

Floors == {0, 1}
WindowSizes == {2, 3, 4}

\* nltk.corpus.stopwords.words('english'), as far as the pool meets it
Stopwords == {"the"}

RECURSIVE Text(_)
\* the text of a chunk: its pieces with nothing between them
Text(chunk) == IF chunk = <<>> THEN "" ELSE Head(chunk) \o Text(Tail(chunk))

\* nltk.word_tokenize(line)
WordTokenize(line) == Flatten(line)

\* line.split(' ')
SplitSpace(line) == [k \in 1 .. Len(line) |-> Text(line[k])]

\* a collections.Counter is the sequence of its <<key, count>> items in
\* insertion order
Keys(wc) == [k \in 1 .. Len(wc) |-> wc[k][1]]
KeySet(wc) == {wc[k][1] : k \in 1 .. Len(wc)}
CountOf(wc, w) ==
    IF w \in KeySet(wc) THEN wc[CHOOSE k \in 1 .. Len(wc) : wc[k][1] = w][2] ELSE 0

\* wc[elem] += count
CounterInc(wc, elem, count) ==
    IF elem \in KeySet(wc)
    THEN [k \in 1 .. Len(wc) |->
            IF wc[k][1] = elem THEN <<elem, wc[k][2] + count>> ELSE wc[k]]
    ELSE Append(wc, <<elem, count>>)

\* collections.Counter(tokens)
RECURSIVE CounterFrom(_, _)
CounterFrom(wc, tokens) ==
    IF tokens = <<>> THEN wc
    ELSE CounterFrom(CounterInc(wc, Head(tokens), 1), Tail(tokens))
Counter(tokens) == CounterFrom(<<>>, tokens)

RECURSIVE CounterIAdd(_, _)
\* wc = other in place of wc += other
CounterAssign(wc, other) == other

\* wc += other: every item of other is added to wc in other's order; no
\* count is zero or negative, so _keep_positive drops nothing
CounterIAdd(wc, other) ==
    IF other = <<>> THEN wc
    ELSE CounterIAdd(CounterInc(wc, Head(other)[1], Head(other)[2]), Tail(other))

\* the removal set of preprocess: the stopwords and every token that
\* word_tokenize counted fewer than self.floor times in these lines
RemovalSet(lines, fl) ==
    LET counts == Counter(Flatten([k \in 1 .. Len(lines) |-> WordTokenize(lines[k])]))
    IN  Stopwords \cup {w \in KeySet(counts) : CountOf(counts, w) < fl}

\* sentences[i] = [i for i in s.split(' ') if i not in stopwords]
Filtered(lines, fl) ==
    LET removal == RemovalSet(lines, fl)
        Kept(t) == t \notin removal
    IN  [k \in 1 .. Len(lines) |-> SelectSeq(SplitSpace(lines[k]), Kept)]

\* Corpus.preprocess(lines): the sentences it returns and the word_counts
\* it leaves
preprocess(lines, fl, wc) ==
    LET filtered == Filtered(lines, fl)
        NonEmpty(x) == Len(x) > 0
    IN  [sentences   |-> SelectSeq(filtered, NonEmpty),
         word_counts |-> CounterIAdd(wc, Counter(Flatten(filtered)))]

\* the items of wc by descending count, ties in insertion order
RECURSIVE MostCommon(_)
MostCommon(wc) ==
    IF wc = <<>> THEN <<>>
    ELSE LET top == Min({k \in 1 .. Len(wc) : \A m \in 1 .. Len(wc) : wc[m][2] <= wc[k][2]})
         IN  <<wc[top]>> \o
             MostCommon([k \in 1 .. Len(wc) - 1 |-> IF k < top THEN wc[k] ELSE wc[k + 1]])

\* ids by enumerate(self.word_counts.most_common())
IdxToWordByCount(wc) == Keys(MostCommon(wc))

\* [i for i in self.word_to_idx.keys()], with word_to_idx =
\* {i: o for o, i in enumerate(self.word_counts.keys())}
IdxToWord(wc) == Keys(wc)

WordToIdx(wc) ==
    [w \in KeySet(wc) |-> (CHOOSE k \in 1 .. Len(wc) : IdxToWord(wc)[k] = w) - 1]

\* the Documents get_documents appends for the sentences preprocess returned
NewDocs(sents, w2i, origin) ==
    [i \in 1 .. Len(sents) |->
        [idx       |-> i - 1,
         partition |-> <<>>,
         topic_to_global_idx |-> <<>>,
         words     |-> [k \in 1 .. Len(sents[i]) |-> w2i[sents[i][k]]],
         category  |-> origin]]

GetDocuments(lines, origin) ==
    LET r == preprocess(lines, floor, word_counts)
    IN  /\ word_counts' = r.word_counts
        /\ word_to_idx' = WordToIdx(r.word_counts)
        /\ idx_to_word' = IdxToWord(r.word_counts)
        /\ docs' = docs \o NewDocs(r.sentences, word_to_idx', origin)
        /\ sentences' = sentences \o r.sentences

\* self.sentences = self.get_documents(reference, 'reference')
ProcessReference ==
    /\ corpus_pc = "reference"
    /\ GetDocuments(reference, "reference")
    /\ corpus_pc' = IF has_focus THEN "focus" ELSE "finish"
    /\ UNCHANGED <<input_vars, vocab_size, collocations, crp_vars, word_vars, main_vars>>

\* if focus: self.sentences += self.get_documents(focus, 'focus')
ProcessFocus ==
    /\ corpus_pc = "focus"
    /\ GetDocuments(focus, "focus")
    /\ corpus_pc' = "finish"
    /\ UNCHANGED <<input_vars, vocab_size, collocations, crp_vars, word_vars, main_vars>>

\* the 0-based positions i[window_start:window_end] around position j of a
\* sentence of length n
Window(j, n, W) ==
    LET window_start == Max({0, j - (W \div 2)})
        window_end   == Min({n - 1, j + (W \div 2)})
    IN  window_start .. window_end - 1

\* the raw counts of Corpus.collocations: cell <<a, b>> counts the
\* (sentence n, position j, window position p) with a the id of the window
\* token l and b the id of the centre token k
Cooccurrences(corpus, W, w2i, size) ==
    LET Centres(n) == {j \in 0 .. Len(corpus[n]) - 1 : corpus[n][j + 1] \in DOMAIN w2i}
        Context(n, j) ==
            {p \in Window(j, Len(corpus[n]), W) :
                /\ corpus[n][p + 1] # corpus[n][j + 1]
                /\ corpus[n][p + 1] \in DOMAIN w2i}
        increments ==
            UNION {UNION {{<<n, j, p>> : p \in Context(n, j)} : j \in Centres(n)} :
                   n \in 1 .. Len(corpus)}
    IN  [c \in (0 .. size - 1) \X (0 .. size - 1) |->
            Cardinality({t \in increments :
                            /\ w2i[corpus[t[1]][t[3] + 1]] = c[1]
                            /\ w2i[corpus[t[1]][t[2] + 1]] = c[2]})]

\* self.vocab_size = len(self.word_counts);
\* self.collocations(self.sentences, window_size), which keeps the raw
\* counts; the PPMI matrix it derives from them is dropped on return
Finish ==
    /\ corpus_pc = "finish"
    /\ vocab_size' = Len(word_counts)
    /\ collocations' = Cooccurrences(sentences, window_size, word_to_idx, Len(word_counts))
    /\ corpus_pc' = "done"
    /\ UNCHANGED <<input_vars, word_counts, word_to_idx, idx_to_word, docs,
                   sentences, crp_vars, word_vars, main_vars>>

CorpusIdle ==
    /\ reference = <<>>
    /\ has_focus = FALSE
    /\ focus = <<>>
    /\ floor = 1
    /\ window_size = 2
    /\ word_counts = <<>>
    /\ word_to_idx = <<>>
    /\ idx_to_word = <<>>
    /\ docs = <<>>
    /\ sentences = <<>>
    /\ vocab_size = 0
    /\ collocations = <<>>
    /\ corpus_pc = "idle"

\* Corpus.__init__ up to the first get_documents
CorpusInit ==
    /\ reference \in Files
    /\ has_focus \in BOOLEAN
    /\ focus \in IF has_focus THEN Files ELSE {<<>>}
    /\ floor \in {f + 1 : f \in Floors}
    /\ window_size \in WindowSizes
    /\ word_counts = <<>>
    /\ word_to_idx = <<>>
    /\ idx_to_word = <<>>
    /\ docs = <<>>
    /\ sentences = <<>>
    /\ vocab_size = 0
    /\ collocations = <<>>
    /\ corpus_pc = "reference"

-----------------------------------------------------------------------------
(* main, main.py 53-102 *)

\* the words the corpus of main may hold, in the order of their ids
MainVocabulary == <<"cat", "sat", "mat", "hat">>

\* the Documents get_documents makes of the k tokens ws, for either file
DocsOfLen(k) ==
    {[idx |-> 0, partition |-> <<>>, topic_to_global_idx |-> <<>>,
      words |-> ws, category |-> origin] :
        ws \in [1 .. k -> 0 .. Min({MaxTokens, Len(MainVocabulary)}) - 1],
        origin \in {"reference", "focus"}}

\* the lists of non-empty Documents with at most T tokens in all
RECURSIVE DocLists(_)
DocLists(T) ==
    {<<>>} \cup
    UNION {{<<d>> \o rest : d \in DocsOfLen(k), rest \in DocLists(T - k)} : k \in 1 .. T}

\* the token ids of the Documents, in the order of the corpus
DocTokens(ds) == Flatten([n \in 1 .. Len(ds) |-> ds[n].words])

\* word_to_idx numbers the keys of word_counts, which are in the order the
\* words first occur: a token is an id seen before it, or the next id
FirstOccurrenceOrder(f) ==
    \A k \in 1 .. Len(f) : f[k] <= Cardinality({f[m] : m \in 1 .. k - 1})

\* corpus.docs after Corpus(...): Document(i, s, origin) for the i-th
\* non-empty sentence of its file, those of the reference file first
CorpusDocs ==
    {[n \in 1 .. Len(ds) |->
        [ds[n] EXCEPT !.idx = Cardinality({m \in 1 .. n - 1 : ds[m].category = ds[n].category})]] :
     ds \in {l \in DocLists(MaxTokens) :
                /\ FirstOccurrenceOrder(DocTokens(l))
                /\ \A m, n \in 1 .. Len(l) :
                      (m < n /\ l[n].category = "reference") => l[m].category = "reference"}}

\* Document.init_partition(alpha) run with the draws `tables`, one per token
RECURSIVE RunInitPartition(_, _, _, _, _)
RunInitPartition(part, n, ws, a, tables) ==
    IF n = Len(ws) THEN [partition |-> part, raised |-> FALSE]
    ELSE LET step == CrpStep(part, n + 1, a, ws[n + 1], tables[n + 1])
         IN  IF step.raised THEN step
             ELSE RunInitPartition(step.partition, n + 1, ws, a, tables)

\* for i in corpus.docs: i.init_partition(args.alpha), one Document a step
MainInitPartition ==
    /\ main_pc = "init_partition"
    /\ pos < Len(docs)
    /\ \E tables \in [1 .. Len(docs[pos + 1].words) -> Draws] :
          LET run == RunInitPartition(<<>>, 0, docs[pos + 1].words, alpha, tables)
          IN  /\ docs' = [docs EXCEPT ![pos + 1].partition = run.partition]
              /\ main_pc' = IF run.raised THEN "IndexError" ELSE "init_partition"
    /\ pos' = pos + 1
    /\ UNCHANGED <<num_senses, words, alpha, doc, N, partition, crp_pc,
                   corpus_rest, word_vars>>

MainPartitionsDone ==
    /\ main_pc = "init_partition"
    /\ pos = Len(docs)
    /\ main_pc' = "hdp"
    /\ UNCHANGED <<docs, num_senses, words, pos, corpus_rest, crp_vars, word_vars>>

\* the ways to give every cluster of every Document one of n global senses
RECURSIVE SenseMaps(_, _)
SenseMaps(ds, n) ==
    IF ds = <<>> THEN {<<>>}
    ELSE {<<g>> \o rest : g \in [1 .. Len(Head(ds).partition) -> 0 .. n - 1],
                          rest \in SenseMaps(Tail(ds), n)}

\* hdp = HDP(...); hdp.init_partition(corpus.docs): the sampler sets up its
\* senses and maps every cluster of every Document to a global sense
HdpInitPartition ==
    /\ main_pc = "hdp"
    /\ \E n \in 0 .. MaxGlobal :
          /\ num_senses' = n
          /\ \E g \in SenseMaps(docs, n) :
                docs' = [k \in 1 .. Len(docs) |->
                           [docs[k] EXCEPT !.topic_to_global_idx = g[k]]]
    /\ main_pc' = "topic_to_distribution"
    /\ UNCHANGED <<words, pos, corpus_rest, crp_vars, word_vars>>

\* for i in corpus.docs: i.topic_to_distribution(hdp.senses.shape[0])
\* Document has no attribute topic_to_distribution: the first Document
\* raises AttributeError, and only a corpus without Documents passes
TopicToDistribution ==
    /\ main_pc = "topic_to_distribution"
    /\ main_pc' = IF docs = <<>> THEN "sampling" ELSE "AttributeError"
    /\ UNCHANGED <<docs, num_senses, words, pos, corpus_rest, crp_vars, word_vars>>

\* the tokens ws in the clusters the labels l give them, l[k] the cluster
\* of the k-th token
Clusters(ws, l) ==
    [i \in 1 .. Cardinality({l[k] : k \in 1 .. Len(ws)}) |->
        Flatten([k \in 1 .. Len(ws) |-> IF l[k] = i THEN <<ws[k]>> ELSE <<>>])]

\* a Document after the sampler: a partition of all its tokens into
\* clusters none of which is empty, each mapped to one of n global senses
Repartitioned(d, n) ==
    UNION {LET p == Clusters(d.words, l)
           IN  {[d EXCEPT !.partition = p, !.topic_to_global_idx = g] :
                   g \in [1 .. Len(p) -> 0 .. n - 1]} :
           l \in {x \in [1 .. Len(d.words) -> 1 .. Len(d.words)] :
                     {x[k] : k \in 1 .. Len(d.words)} =
                         1 .. Cardinality({x[k] : k \in 1 .. Len(d.words)})}}

RECURSIVE Resampled(_, _)
Resampled(ds, n) ==
    IF ds = <<>> THEN {<<>>}
    ELSE {<<d>> \o rest : d \in Repartitioned(Head(ds), n), rest \in Resampled(Tail(ds), n)}

\* the sampling sweeps, main.py 65-78: hdp.sample_table is called once for
\* every token of every Document in every sweep and leaves each Document
\* partitioned and its clusters mapped to senses; with no Document it is
\* never called
GibbsSampling ==
    /\ main_pc = "sampling"
    /\ IF docs = <<>>
       THEN UNCHANGED <<docs, num_senses>>
       ELSE \E n \in 1 .. MaxGlobal :
               /\ num_senses' = n
               /\ docs' \in Resampled(docs, n)
    /\ main_pc' = "scoring"
    /\ UNCHANGED <<words, pos, corpus_rest, crp_vars, word_vars>>

\* the <<origin, sense, w>> the three nested loops of the scoring pass
\* visit, in their order
ClusterOccurrences(d, i) ==
    [k \in 1 .. Len(d.partition[i]) |->
        <<d.category, d.topic_to_global_idx[i], d.partition[i][k]>>]
DocOccurrences(d) ==
    Flatten([i \in 1 .. Len(d.partition) |-> ClusterOccurrences(d, i)])
Occurrences(ds) == Flatten([n \in 1 .. Len(ds) |-> DocOccurrences(ds[n])])

\* Word(word, idx, senses): np.zeros((senses, 2))
NewWord(word, idx, n) ==
    [word |-> word, idx |-> idx, senses |-> [s \in 1 .. n |-> <<0, 0>>]]

\* senses[sense][0] += 1 for a reference Document, senses[sense][1] += 1
\* for any other
Increment(word, sense, origin) ==
    [word EXCEPT !.senses[sense + 1][IF origin = "reference" THEN 1 ELSE 2] = @ + 1]

\* a create-or-update that leaves the occurrence creating the entry
\* uncounted
ObserveFirstUncounted(ws, name, w, sense, origin, n) ==
    IF name \in DOMAIN ws
    THEN [ws EXCEPT ![name] = Increment(@, sense, origin)]
    ELSE [x \in DOMAIN ws \cup {name} |->
            IF x = name THEN NewWord(name, w, n) ELSE ws[x]]

\* the body of `for w in p`: update the entry of the word, or create it
\* and count the occurrence in it
Observe(ws, name, w, sense, origin, n) ==
    IF name \in DOMAIN ws
    THEN [ws EXCEPT ![name] = Increment(@, sense, origin)]
    ELSE [x \in DOMAIN ws \cup {name} |->
            IF x = name THEN Increment(NewWord(name, w, n), sense, origin) ELSE ws[x]]

\* the dict the scoring loops leave after the occurrences occ, from ws
RECURSIVE Scored(_, _, _, _)
Scored(ws, occ, i2w, n) ==
    IF occ = <<>> THEN ws
    ELSE Scored(Observe(ws, i2w[Head(occ)[3] + 1], Head(occ)[3], Head(occ)[2],
                        Head(occ)[1], n),
                Tail(occ), i2w, n)

\* words = dict() and the scoring loops, main.py 80-97
ScoringPass ==
    /\ main_pc = "scoring"
    /\ words' = Scored(<<>>, Occurrences(docs), idx_to_word, num_senses)
    /\ main_pc' = "calculate"
    /\ UNCHANGED <<docs, num_senses, pos, corpus_rest, crp_vars, word_vars>>

\* for k, v in words.items(): v = v.calculate()
\* the results are bound to the loop variable only
CalculateAll ==
    /\ main_pc = "calculate"
    /\ main_pc' = IF \E x \in DOMAIN words : calculate(words[x].senses).kind # "ok"
                  THEN "ValueError in calculate" ELSE "assert"
    /\ UNCHANGED <<docs, num_senses, words, pos, corpus_rest, crp_vars, word_vars>>

\* assert max(words.values()) <= 1; assert min(words.values()) >= 0
\* the values of the dict are the Word objects, which define no ordering:
\* max of none raises ValueError, and comparing a Word with a Word or with
\* 1 raises TypeError
Assertions ==
    /\ main_pc = "assert"
    /\ main_pc' = IF DOMAIN words = {} THEN "ValueError in max" ELSE "TypeError"
    /\ UNCHANGED <<docs, num_senses, words, pos, corpus_rest, crp_vars, word_vars>>

MainIdle ==
    /\ num_senses = 0
    /\ words = <<>>
    /\ pos = 0
    /\ main_pc = "idle"

\* main after corpus = Corpus(...), main.py 54: the Documents are not yet
\* partitioned, and args.alpha is the concentration parameter
MainInit ==
    /\ num_senses = 0
    /\ words = <<>>
    /\ pos = 0
    /\ main_pc = "init_partition"
    /\ doc = <<>>
    /\ alpha \in Alphas
    /\ N = 0
    /\ partition = <<>>
    /\ crp_pc = "idle"

\* the corpus main was given, as far as main reads it
MainCorpus ==
    /\ reference = <<>>
    /\ has_focus = TRUE
    /\ focus = <<>>
    /\ floor = 1
    /\ window_size = 2
    /\ word_counts = <<>>
    /\ word_to_idx = [k \in {} |-> 0]
    /\ docs \in CorpusDocs
    /\ vocab_size = Cardinality({DocTokens(docs)[k] : k \in 1 .. Len(DocTokens(docs))})
    /\ idx_to_word = SubSeq(MainVocabulary, 1, vocab_size)
    /\ sentences = <<>>
    /\ collocations = <<>>
    /\ corpus_pc = "done"

\* the scoring pass of main.py 80-97 taken by itself, on what the sampler
\* is to leave in corpus.docs and hdp.senses: every Document partitioned,
\* every cluster mapped to a sense
ScoringInit ==
    /\ \E ds \in CorpusDocs : \E n \in 0 .. MaxGlobal :
          /\ num_senses = n
          /\ docs \in Resampled(ds, n)
    /\ words = <<>>
    /\ pos = Len(docs)
    /\ main_pc = "scoring"
    /\ reference = <<>>
    /\ has_focus = TRUE
    /\ focus = <<>>
    /\ floor = 1
    /\ window_size = 2
    /\ word_counts = <<>>
    /\ word_to_idx = [k \in {} |-> 0]
    /\ vocab_size = Cardinality({DocTokens(docs)[k] : k \in 1 .. Len(DocTokens(docs))})
    /\ idx_to_word = SubSeq(MainVocabulary, 1, vocab_size)
    /\ sentences = <<>>
    /\ collocations = <<>>
    /\ corpus_pc = "done"

-----------------------------------------------------------------------------
(* Specifications *)

CrpNext == InitPartitionDraw \/ InitPartitionReturn

InitCRP == CrpInit /\ WordIdle /\ CorpusIdle /\ MainIdle

SpecCRP == InitCRP /\ [][CrpNext]_vars

WordNext == Calculate

InitWord == WordInit /\ CrpIdle /\ CorpusIdle /\ MainIdle

SpecWord == InitWord /\ [][WordNext]_vars

CorpusNext == ProcessReference \/ ProcessFocus \/ Finish

InitCorpus == CorpusInit /\ CrpIdle /\ WordIdle /\ MainIdle

SpecCorpus == InitCorpus /\ [][CorpusNext]_vars

MainNext ==
    \/ MainInitPartition
    \/ MainPartitionsDone
    \/ HdpInitPartition
    \/ TopicToDistribution
    \/ GibbsSampling
    \/ ScoringPass
    \/ CalculateAll
    \/ Assertions

InitMain == MainInit /\ MainCorpus /\ WordIdle

SpecMain == InitMain /\ [][MainNext]_vars

ScoringNext ==
    \/ ScoringPass
    \/ CalculateAll
    \/ Assertions

InitScoring == ScoringInit /\ CrpIdle /\ WordIdle

SpecScoring == InitScoring /\ [][ScoringNext]_vars

-----------------------------------------------------------------------------
(* Claims about Document.init_partition, checked under SpecCRP *)

IsExactPartition(part, d) ==
    /\ Len(Flatten(part)) = Len(d)
    /\ \A t \in 0 .. MaxTok : CountIn(Flatten(part), t) = CountIn(d, t)

\* C1: for every document, every alpha > 0 and every sequence of draws in
\* [0, 1), init_partition processes every token (it does not raise) and
\* ends with clusters whose multiset union is the document's tokens.
C1_PartitionExact ==
    /\ crp_pc # "IndexError"
    /\ (crp_pc = "done" => IsExactPartition(partition, doc))

-----------------------------------------------------------------------------
(* Claims about Word.calculate, checked under SpecWord *)

AllZero(s) == \A i \in 1 .. Len(s) : RowIsZero(s[i])

\* (focus - ref)/(ref + focus) of row i of s
RowNovelty(s, i) == <<s[i][2] - s[i][1], s[i][1] + s[i][2]>>

\* C2: for a matrix with a nonzero row, calculate returns the maximum of
\* (focus - ref)/(ref + focus) over the nonzero rows and the index, in the
\* original matrix, of a row that achieves it.
C2_MaxAndSenseIndex ==
    (word_pc = "returned" /\ ~AllZero(senses)) =>
        \E i \in {k \in 1 .. Len(senses) : ~RowIsZero(senses[k])} :
            /\ result.index = i - 1
            /\ RatEq(result.score, RowNovelty(senses, i))
            /\ \A m \in {k \in 1 .. Len(senses) : ~RowIsZero(senses[k])} :
                    ~RatLt(RowNovelty(senses, i), RowNovelty(senses, m))

\* C8: calculate on an all-zero sense matrix ends in an error: it returns
\* no (score, index) pair.
C8_AllZeroRaises ==
    (word_pc # "ready" /\ AllZero(senses)) =>
        (word_pc = "ValueError" /\ result.kind = "ValueError")

C8_Witness ==
    /\ word_pc = "ValueError"
    /\ Len(senses) = 2
    /\ AllZero(senses)

-----------------------------------------------------------------------------
(* Claims about Corpus, checked under SpecCorpus *)

Id(w) == word_to_idx[w]

Range(f) == {f[x] : x \in DOMAIN f}

\* every token of the input (all supplied files), as split(' ') spells it
AllTokens == Flatten([n \in 1 .. Len(reference \o focus) |-> SplitSpace((reference \o focus)[n])])

\* the corpus is the single sentence <<A, B, C>> of distinct words, all of
\* them in the vocabulary
ThreeTokenCorpus ==
    /\ ~has_focus
    /\ Len(reference) = 1
    /\ Len(reference[1]) = 3
    /\ Cardinality(Range(SplitSpace(reference[1]))) = 3
    /\ Range(SplitSpace(reference[1])) \subseteq DOMAIN word_to_idx

\* C3: for the one-sentence corpus <<A, B, C>> and any window size >= 2,
\* after collocations the cells (id(B), id(A)) and (id(A), id(B)) hold
\* exactly 1 and the cell (id(A), id(A)) holds 0.
C3_PairCountedBothWays ==
    (corpus_pc = "done" /\ ThreeTokenCorpus) =>
        LET A == SplitSpace(reference[1])[1]
            B == SplitSpace(reference[1])[2]
        IN  /\ collocations[<<Id(B), Id(A)>>] = 1
            /\ collocations[<<Id(A), Id(B)>>] = 1
            /\ collocations[<<Id(A), Id(A)>>] = 0

\* the reference Documents: get_documents appends them first
ReferenceDocs == {n \in 1 .. Len(docs) : docs[n].category = "reference"}

\* C4: processing the focus file only extends the vocabulary: every word
\* keeps the id it had after the reference file, new words get ids above
\* all existing ones, and every token id of a reference Document denotes
\* the same word afterwards.
C4_FocusOnlyExtends ==
    [][corpus_pc = "focus" =>
        /\ \A w \in DOMAIN word_to_idx :
              w \in DOMAIN word_to_idx' /\ word_to_idx'[w] = word_to_idx[w]
        /\ \A w \in DOMAIN word_to_idx' \ DOMAIN word_to_idx :
              \A v \in DOMAIN word_to_idx : word_to_idx'[w] > word_to_idx[v]
        /\ \A n \in ReferenceDocs :
              /\ docs'[n] = docs[n]
              /\ \A k \in 1 .. Len(docs[n].words) :
                    idx_to_word'[docs[n].words[k] + 1] = idx_to_word[docs[n].words[k] + 1]
      ]_vars

\* the focus file has been processed, it added a word the reference
\* sentences do not hold, and the reference left words and Documents
C4_Witness ==
    /\ corpus_pc = "finish"
    /\ has_focus
    /\ ReferenceDocs # {}
    /\ \E w \in DOMAIN word_to_idx :
          \A n \in ReferenceDocs : w \notin Range(sentences[n])

\* C5: after construction word_to_idx is a bijection from the vocabulary
\* onto 0 .. vocab_size-1, idx_to_word is its inverse, both have vocab_size
\* = len(word_counts) entries, and every token id of every Document is in
\* 0 .. vocab_size-1.
C5_DenseIds ==
    corpus_pc = "done" =>
        /\ DOMAIN word_to_idx = UNION {Range(sentences[n]) : n \in 1 .. Len(sentences)}
        /\ Range(word_to_idx) = 0 .. vocab_size - 1
        /\ \A v, w \in DOMAIN word_to_idx : Id(v) = Id(w) => v = w
        /\ Len(idx_to_word) = vocab_size
        /\ Cardinality(DOMAIN word_to_idx) = vocab_size
        /\ Len(word_counts) = vocab_size
        /\ \A w \in DOMAIN word_to_idx : idx_to_word[Id(w) + 1] = w
        /\ \A n \in 1 .. Len(docs) : Range(docs[n].words) \subseteq 0 .. vocab_size - 1

\* a corpus of a reference and a focus file, with Documents of both
C5_Witness ==
    /\ corpus_pc = "done"
    /\ has_focus
    /\ vocab_size >= 4
    /\ ReferenceDocs # {}
    /\ \E n \in 1 .. Len(docs) : docs[n].category = "focus"

\* C6: a token is absent from the vocabulary if and only if it is a
\* stopword or its count over the entire input, reference and focus
\* together, is less than floor + 1.
C6_RemovedIffRareOrStopword ==
    corpus_pc = "done" =>
        \A w \in Range(AllTokens) :
            (w \notin DOMAIN word_to_idx) <=>
                (w \in Stopwords \/ CountIn(AllTokens, w) < floor)

\* the end-to-end scenario of the specification
Scenario ==
    /\ reference = <<Line(<<"cat", "sat", "mat">>), Line(<<"dog", "sat", "log">>)>>
    /\ has_focus
    /\ focus = <<Line(<<"cat", "sat", "log">>), Line(<<"dog", "sat", "mat">>)>>
    /\ floor = 0 + 1
    /\ window_size = 4

\* C7: in the end-to-end scenario, for every pair of words (x, y) adjacent
\* in some sentence, the cells (id(x), id(y)) and (id(y), id(x)) of the
\* association matrix are both nonzero.
C7_AdjacentPairsBothWays ==
    (corpus_pc = "done" /\ Scenario) =>
        \A n \in 1 .. Len(sentences) : \A k \in 1 .. Len(sentences[n]) - 1 :
            /\ collocations[<<Id(sentences[n][k]), Id(sentences[n][k + 1])>>] # 0
            /\ collocations[<<Id(sentences[n][k + 1]), Id(sentences[n][k])>>] # 0

-----------------------------------------------------------------------------
(* Claims about main, checked under SpecMain *)

ScoringOver ==
    main_pc \in {"calculate", "assert", "ValueError in calculate",
                 "ValueError in max", "TypeError"}

\* every <<Document, cluster, position>> of the partitions
PartitionCells ==
    UNION {UNION {{<<n, i, k>> : k \in 1 .. Len(docs[n].partition[i])} :
                  i \in 1 .. Len(docs[n].partition)} :
           n \in 1 .. Len(docs)}

\* the occurrences of the word `name` in clusters mapped to sense s, of
\* reference Documents (ref) or of the others
Observed(name, s, ref) ==
    Cardinality({c \in PartitionCells :
        /\ idx_to_word[docs[c[1]].partition[c[2]][c[3]] + 1] = name
        /\ docs[c[1]].topic_to_global_idx[c[2]] = s
        /\ (docs[c[1]].category = "reference") = ref})

CellSum(ws) ==
    SumSeq(Flatten([k \in 1 .. Len(idx_to_word) |->
        IF idx_to_word[k] \in DOMAIN ws
        THEN [s \in 1 .. Len(ws[idx_to_word[k]].senses) |->
                ws[idx_to_word[k]].senses[s][1] + ws[idx_to_word[k]].senses[s][2]]
        ELSE <<>>]))

\* C9: after main's scoring pass over all Documents, for every word and
\* every global sense, the reference cell is the number of occurrences of
\* the word in reference clusters mapped to the sense and the focus cell
\* the number in focus clusters (a word with no entry has none); the
\* occurrence that creates the entry is counted once like the later ones,
\* so all cells together sum to the number of tokens in all partitions.
C9_TalliesExact ==
    ScoringOver =>
        /\ \A name \in Range(idx_to_word) : \A s \in 0 .. num_senses - 1 :
              IF name \in DOMAIN words
              THEN words[name].senses[s + 1] =
                      <<Observed(name, s, TRUE), Observed(name, s, FALSE)>>
              ELSE Observed(name, s, TRUE) = 0 /\ Observed(name, s, FALSE) = 0
        /\ \A name \in DOMAIN words : Len(words[name].senses) = num_senses
        /\ CellSum(words) = Cardinality(PartitionCells)

\* the pass is over, and a word was seen in a reference and in a focus
\* cluster: one occurrence created its entry and another updated it
C9_Witness ==
    /\ ScoringOver
    /\ \E name \in DOMAIN words : \E s, t \in 1 .. num_senses :
          /\ words[name].senses[s][1] > 0
          /\ words[name].senses[t][2] > 0

\* C10: in every run that reaches the two assertions after the scoring
\* loop they hold: they do not raise, no scored word has a value above 1
\* and none has a value below 0.
C10_AssertionsHold ==
    /\ main_pc \notin {"TypeError", "ValueError in max"}
    /\ main_pc = "assert" =>
          \A x \in DOMAIN words :
              /\ calculate(words[x].senses).score[1] <= calculate(words[x].senses).score[2]
              /\ calculate(words[x].senses).score[1] >= 0

=============================================================================
